---- MODULE Spec2Model ----
(***************************************************************************)
(* A model of convert_model_final.py: convert_model() loads a Keras model, *)
(* rewrites its topology JSON, builds the TensorFlow.js weights manifest   *)
(* and writes model.json plus one binary file per weight array.            *)
(*                                                                         *)
(* Python dicts are functions on a finite set of string keys, lists are    *)
(* sequences, the output directory is a function from file names to file   *)
(* contents.  The host is little-endian.                                   *)
(***************************************************************************)
EXTENDS Integers, Sequences, FiniteSets, TLC

VARIABLES
    file_exists,      \* os.path.exists(model_path)
    load_fails,       \* tf.keras.models.load_model raises
    net_layers,       \* the saved network: model.layers, each with its variables
    net_json,         \* the saved network: json.loads(model.to_json())
    out_exists,       \* os.path.exists(output_dir)
    out_files,        \* the files of output_dir: name -> content
    pc,               \* position in convert_model / __main__
    model_loaded,     \* the local `model` is bound
    model_topology,   \* local model_topology
    all_weights,      \* local all_weights
    weight_paths,     \* local weight_paths
    weight_info,      \* local weight_info
    model_json,       \* local model_json
    weight_index,     \* local weight_index of the file-writing loop
    result,           \* what convert_model returned: "none", "true", "false"
    stdout,           \* the error lines printed so far
    exited,           \* the process has ended
    exit_code,        \* its exit status, once exited
    rerun,            \* this is the second run on the same input and directory
    first_files,      \* out_files as the first run left them
    written,          \* names of the files this run has written
    dataset_exists,   \* process_dataset.py: dataset_path.exists()
    dataset_dirs,     \* the gesture directories in iterdir() order, with their images
    max_samples,      \* max_samples_per_class
    hg_pc,            \* position in process_haGRID_dataset
    collected_data,   \* local collected_data
    class_counts,     \* local class_counts
    dir_index,        \* position of the loop over gesture_dirs
    gesture_name,     \* local gesture_name
    our_class,        \* local our_class
    image_files,      \* local image_files
    img_index,        \* position of the loop over image_files
    output_file       \* the JSON file written at the end

vars == <<file_exists, load_fails, net_layers, net_json, out_exists, out_files,
          pc, model_loaded, model_topology, all_weights, weight_paths,
          weight_info, model_json, weight_index, result, stdout, exited,
          exit_code, rerun, first_files, written,
          dataset_exists, dataset_dirs, max_samples, hg_pc, collected_data,
          class_counts, dir_index, gesture_name, our_class, image_files,
          img_index, output_file>>

\* the state of process_dataset.py
dataset == <<dataset_exists, dataset_dirs, max_samples, hg_pc, collected_data,
             class_counts, dir_index, gesture_name, our_class, image_files,
             img_index, output_file>>

\* the state of convert_model_final.py
conversion == <<file_exists, load_fails, net_layers, net_json, out_exists, out_files,
                pc, model_loaded, model_topology, all_weights, weight_paths,
                weight_info, model_json, weight_index, result, stdout, exited,
                exit_code, rerun, first_files, written>>

(***************************************************************************)
(* Bounds of the model.                                                    *)
(***************************************************************************)
MaxLayers == 2        \* layers of a network
MaxTopoLayers == 2    \* entries of config.layers in the topology JSON
MaxDirs == 3          \* gesture directories of a dataset

(***************************************************************************)
(* Python dict and list helpers.                                           *)
(***************************************************************************)
EmptyDict == [k \in {} |-> 0]

Has(d, k) == k \in DOMAIN d

Get(d, k, default) == IF k \in DOMAIN d THEN d[k] ELSE default

Del(d, k) == [x \in (DOMAIN d) \ {k} |-> d[x]]

Put(d, k, v) == [x \in (DOMAIN d) \cup {k} |-> IF x = k THEN v ELSE d[x]]

NoValue == [none |-> TRUE]

\* JSON values of batch_shape: null or a list of dimensions
JNull == [kind |-> "null"]

JList(s) == [kind |-> "list", items |-> s]

\* Python truthiness of a batch_shape value: None and [] are falsy
Truthy(v) == v.kind = "list" /\ Len(v.items) > 0

RECURSIVE Concat(_)
Concat(ss) == IF ss = <<>> THEN <<>> ELSE Head(ss) \o Concat(Tail(ss))

RECURSIVE Pow2(_)
Pow2(n) == IF n = 0 THEN 1 ELSE 2 * Pow2(n - 1)

(***************************************************************************)
(* Weight arrays.  A numpy array is its shape and its elements in rows     *)
(* (a 1-D array is one row); the elements are non-negative whole numbers.  *)
(***************************************************************************)
VarIds == {"w1", "w2", "w3"}

\* the array held by each weight variable of the network
TensorOf(v) ==
    CASE v = "w1" -> [shape |-> <<2, 2>>, rows |-> <<<<0, 3>>, <<16777217, 3>>>>]
      [] v = "w2" -> [shape |-> <<2>>, rows |-> <<<<3, 0>>>>]
      [] v = "w3" -> [shape |-> <<2>>, rows |-> <<<<0, 16777217>>>>]

\* list(weight.shape)
WeightShape(weight) == weight.shape

\* weight.flatten(): row-major
Flatten(weight) == Concat(weight.rows)

RECURSIVE Log2(_)
Log2(n) == IF n <= 1 THEN 0 ELSE 1 + Log2(n \div 2)

\* the IEEE-754 binary32 bit pattern nearest to a whole number v >= 0
\* (round to nearest, ties to even)
Float32Bits(v) ==
    IF v = 0 THEN 0
    ELSE LET e == Log2(v)
             frac == v - Pow2(e)
         IN  IF e <= 23
             THEN (e + 127) * Pow2(23) + frac * Pow2(23 - e)
             ELSE LET sh == e - 23
                      q == frac \div Pow2(sh)
                      r == frac % Pow2(sh)
                      half == Pow2(sh - 1)
                      up == r > half \/ (r = half /\ q % 2 = 1)
                  IN  (e + 127) * Pow2(23) + q + (IF up THEN 1 ELSE 0)

\* the four bytes of a 32-bit pattern in the memory of a little-endian host
NativeBytes(b) ==
    <<b % 256, (b \div 256) % 256, (b \div 65536) % 256, (b \div 16777216) % 256>>

\* xs.astype(np.float32): one 4-byte element per number
AsFloat32(xs) == [i \in 1..Len(xs) |-> NativeBytes(Float32Bits(xs[i]))]

\* arr.byteswap(False): a copy with the bytes of every element reversed
Byteswap(arr) ==
    [i \in 1..Len(arr) |-> [j \in 1..Len(arr[i]) |-> arr[i][Len(arr[i]) + 1 - j]]]

\* arr.tofile(path): the raw memory of the array
ToFile(arr) == [kind |-> "bin", bytes |-> Concat(arr)]

\* lines 130-132: the content written for one weight array
WeightFile(weight) == ToFile(Byteswap(AsFloat32(Flatten(weight))))

\* the index is printed one too high
GroupName_OneBased(i) == "group" \o ToString(i + 1) \o "-shard1of1.bin"

\* f"group{weight_index}-shard1of1.bin"
GroupName(i) == "group" \o ToString(i) \o "-shard1of1.bin"

(***************************************************************************)
(* The network: model.layers is a sequence of layers, each with a name and *)
(* the weight variables it owns or tracks.  A variable may be tracked by   *)
(* more than one layer (a wrapper and the layer it wraps, tied weights).   *)
(***************************************************************************)
\* layer.get_weights(): the arrays of the layer's variables, in order
LayerGetWeights(layer) == [i \in 1..Len(layer.weights) |-> TensorOf(layer.weights[i])]

RECURSIVE Dedup(_, _)
Dedup(vs, seen) ==
    IF vs = <<>> THEN <<>>
    ELSE IF Head(vs) \in seen THEN Dedup(Tail(vs), seen)
         ELSE <<Head(vs)>> \o Dedup(Tail(vs), seen \cup {Head(vs)})

\* model.weights: the layers' variables in layer order, each variable once
ModelWeightVars(layers) ==
    Dedup(Concat([i \in 1..Len(layers) |-> layers[i].weights]), {})

\* model.get_weights()
ModelGetWeights(layers) ==
    LET vs == ModelWeightVars(layers) IN [i \in 1..Len(vs) |-> TensorOf(vs[i])]

(***************************************************************************)
(* The metadata pass, lines 73-99.                                         *)
(***************************************************************************)
\* every tensor after the second gets a name of its own
WeightNameTfjs_ByPosition(layer, i) ==
    IF i = 0 THEN layer.name \o "/kernel"
    ELSE IF i = 1 THEN layer.name \o "/bias"
         ELSE layer.name \o "/weight_" \o ToString(i)

\* lines 89-92
WeightNameTfjs(layer, i) ==
    IF i = 0 THEN layer.name \o "/kernel" ELSE layer.name \o "/bias"

\* lines 94-98
WeightEntry(layer, i, weight) ==
    [name |-> WeightNameTfjs(layer, i), shape |-> WeightShape(weight), dtype |-> "float32"]

\* lines 83-99: the inner loop from position i (0-based) of layer_weights
RECURSIVE TensorLoop(_, _, _, _)
TensorLoop(layer, layer_weights, i, acc) ==
    IF i >= Len(layer_weights) THEN acc
    ELSE TensorLoop(layer, layer_weights, i + 1,
             [paths |-> Append(acc.paths, GroupName(acc.index)),
              info  |-> Append(acc.info, WeightEntry(layer, i, layer_weights[i + 1])),
              index |-> acc.index + 1])

\* weight_index starts again at 0 for every layer
RECURSIVE LayerLoop_IndexPerLayer(_, _)
LayerLoop_IndexPerLayer(layers, acc) ==
    IF layers = <<>> THEN acc
    ELSE LET layer_weights == LayerGetWeights(Head(layers))
         IN  LayerLoop_IndexPerLayer(Tail(layers),
                 IF Len(layer_weights) > 0
                 THEN TensorLoop(Head(layers), layer_weights, 0, [acc EXCEPT !.index = 0])
                 ELSE acc)

\* lines 80-99: the loop over model.layers
RECURSIVE LayerLoop(_, _)
LayerLoop(layers, acc) ==
    IF layers = <<>> THEN acc
    ELSE LET layer_weights == LayerGetWeights(Head(layers))
         IN  LayerLoop(Tail(layers),
                 IF Len(layer_weights) > 0
                 THEN TensorLoop(Head(layers), layer_weights, 0, acc)
                 ELSE acc)

\* lines 73-99: weight_paths, weight_info and the final weight_index
MetadataPass(layers) == LayerLoop(layers, [paths |-> <<>>, info |-> <<>>, index |-> 0])

\* no group at all when there is no weight
WeightsManifest_NoEmptyGroup(paths, info) ==
    IF paths = <<>> THEN <<>> ELSE <<[paths |-> paths, weights |-> info]>>

\* lines 102-105
WeightsManifest(paths, info) == <<[paths |-> paths, weights |-> info]>>

\* lines 108-114
ModelJson(topology, manifest) ==
    [modelTopology |-> topology,
     weightsManifest |-> manifest,
     format |-> "layers-model",
     generatedBy |-> "tensorflowjs",
     convertedBy |-> "manual-conversion"]

\* line 119: json.dump writes the text of the object; the text is a function
\* of the object alone
JsonFile(obj) == [kind |-> "json", value |-> obj]

(***************************************************************************)
(* The topology transform, lines 31-59.                                    *)
(***************************************************************************)
\* tf.keras.__version__
KerasVersion == "3.0.0"

\* the raw topology is kept and only the backend tag added
CleanTopology_CopyRaw(raw) ==
    Put(Put(Put(Put(raw, "class_name", Get(raw, "class_name", "Sequential")),
                "config", Get(raw, "config", EmptyDict)),
            "keras_version", Get(raw, "keras_version", KerasVersion)),
        "backend", "tensorflow")

\* lines 35-40
CleanTopology(raw) ==
    [class_name |-> Get(raw, "class_name", "Sequential"),
     config |-> Get(raw, "config", EmptyDict),
     keras_version |-> Get(raw, "keras_version", KerasVersion),
     backend |-> "tensorflow"]

\* the batch dimension is not dropped
FixBatchShape_KeepBatchDim(layer_config) ==
    LET batch_shape == layer_config["batch_shape"]
        with_input == IF Truthy(batch_shape) /\ Len(batch_shape.items) > 1
                      THEN Put(layer_config, "inputShape", JList(batch_shape.items))
                      ELSE layer_config
    IN  Del(with_input, "batch_shape")

\* lines 49-53, on a layer config that holds batch_shape
FixBatchShape(layer_config) ==
    LET batch_shape == layer_config["batch_shape"]
        with_input == IF Truthy(batch_shape) /\ Len(batch_shape.items) > 1
                      THEN Put(layer_config, "inputShape", JList(Tail(batch_shape.items)))
                      ELSE layer_config
    IN  Del(with_input, "batch_shape")

\* lines 45-53, one entry of config.layers
FixInputLayer(layer) ==
    IF Has(layer, "class_name") /\ layer["class_name"] = "InputLayer"
    THEN IF Has(layer, "config") /\ Has(layer["config"], "batch_shape")
         THEN Put(layer, "config", FixBatchShape(layer["config"]))
         ELSE layer
    ELSE layer

\* lines 43-53
FixInputLayers(topology) ==
    IF Has(topology, "config") /\ Has(topology["config"], "layers")
    THEN LET layers == topology["config"]["layers"]
         IN  Put(topology, "config",
                 Put(topology["config"], "layers",
                     [i \in 1..Len(layers) |-> FixInputLayer(layers[i])]))
    ELSE topology

\* lines 56-59
DropBuildCompile(topology) ==
    LET t1 == IF Has(topology, "build_config") THEN Del(topology, "build_config") ELSE topology
    IN  IF Has(t1, "compile_config") THEN Del(t1, "compile_config") ELSE t1

\* lines 31-59
TransformTopology(raw) == DropBuildCompile(FixInputLayers(CleanTopology(raw)))

(***************************************************************************)
(* process_dataset.py: the gesture classes and the locals of               *)
(* process_haGRID_dataset at its entry.                                    *)
(***************************************************************************)
\* the keys of class_counts, line 110
Classes == {"pointing", "pinch", "open_palm", "idle"}

\* lines 20-46
GESTURE_MAPPING ==
    [point_up |-> "pointing", one |-> "pointing",
     ok |-> "pinch", two |-> "pinch",
     open_palm |-> "open_palm", five |-> "open_palm", stop |-> "open_palm",
     fist |-> "idle", three |-> "idle", four |-> "idle", call |-> "idle",
     mute |-> "idle", peace |-> "idle", like |-> "idle", dislike |-> "idle",
     rock |-> "idle", stop_inverted |-> "idle", no_gesture |-> "idle"]

\* line 109-110 and the loop variables before the loops
DatasetLocals ==
    /\ hg_pc = "check"
    /\ collected_data = <<>>
    /\ class_counts = [c \in Classes |-> 0]
    /\ dir_index = 0
    /\ gesture_name = ""
    /\ our_class = ""
    /\ image_files = <<>>
    /\ img_index = 0
    /\ output_file = NoValue

\* process_dataset.py is not run
DatasetIdle ==
    /\ dataset_exists = FALSE
    /\ dataset_dirs = <<>>
    /\ max_samples = 0
    /\ DatasetLocals

(***************************************************************************)
(* The inputs of a run.                                                    *)
(***************************************************************************)
\* the variable lists a layer may hold
WeightLists ==
    {<<>>, <<"w1">>, <<"w2">>, <<"w1", "w2">>, <<"w2", "w3">>, <<"w3", "w1">>,
     <<"w1", "w2", "w3">>, <<"w2", "w1", "w3">>}

\* Keras names the layers of a model apart
LayerName(i) == "dense_" \o ToString(i)

\* the networks of at most n layers
Networks(n) ==
    UNION {{[i \in 1..k |-> [name |-> LayerName(i), weights |-> ws[i]]] :
              ws \in [1..k -> WeightLists]} : k \in 0..n}

\* layer configs of the topology JSON
LayerConfigs ==
    {EmptyDict,
     [name |-> "input_layer"],
     [batch_shape |-> JNull],
     [batch_shape |-> JList(<<>>)],
     [batch_shape |-> JList(<<32>>)],
     [batch_shape |-> JList(<<32, 63>>)],
     [batch_shape |-> JList(<<32, 2, 3>>), name |-> "input_layer"],
     [batch_shape |-> JList(<<32>>), inputShape |-> JList(<<7>>)]}

\* entries of config.layers
LayerDicts ==
    {[class_name |-> "InputLayer", config |-> c] : c \in LayerConfigs}
    \cup {[class_name |-> "InputLayer"],
          [config |-> [batch_shape |-> JList(<<32, 63>>)]],
          [class_name |-> "Dense", config |-> [batch_shape |-> JList(<<32, 63>>)]],
          [class_name |-> "Dense", config |-> [name |-> "dense_1"]]}

\* the top-level keys model.to_json() may carry beside class_name and config
ExtraKeySets ==
    {{}, {"build_config"}, {"compile_config"}, {"build_config", "compile_config"},
     {"build_config", "compile_config", "keras_version", "module"}}

RawValue(k, config) ==
    CASE k = "class_name" -> "Functional"
      [] k = "config" -> config
      [] k = "keras_version" -> "2.15.0"
      [] k = "module" -> "keras"
      [] k = "build_config" -> [input_shape |-> JList(<<32, 63>>)]
      [] k = "compile_config" -> [optimizer |-> "adam"]

RawTopology(keys, config) == [k \in keys |-> RawValue(k, config)]

\* the topology JSONs with at most n entries in config.layers
Topologies(n) ==
    LET configs == {[name |-> "sequential"]}
                   \cup {[name |-> "sequential", layers |-> ls] :
                           ls \in UNION {[1..k -> LayerDicts] : k \in 0..n}}
    IN  {RawTopology({"class_name", "config"} \cup ex, c) : ex \in ExtraKeySets, c \in configs}
        \cup {RawTopology({"class_name"} \cup ex, EmptyDict) : ex \in ExtraKeySets}
        \cup {RawTopology(ex, EmptyDict) : ex \in ExtraKeySets}

\* the topology of the network train_model.py builds, and a bare one
SomeTopologies ==
    {RawTopology({"class_name", "config", "build_config", "compile_config"},
                 [name |-> "sequential",
                  layers |-> <<[class_name |-> "InputLayer",
                                config |-> [batch_shape |-> JList(<<32, 63>>)]],
                               [class_name |-> "Dense", config |-> [name |-> "dense_1"]]>>]),
     RawTopology({"class_name"}, EmptyDict)}

\* a file left in the output directory by something else
Stale == [kind |-> "stale"]

\* the output directory before the run: absent, empty, or holding old files
OutDirs ==
    {[exists |-> FALSE, files |-> EmptyDict],
     [exists |-> TRUE, files |-> EmptyDict],
     [exists |-> TRUE,
      files |-> [f \in {"model.json", GroupName(0), GroupName(7), "notes.txt"} |-> Stale]]}

SomeNetworks ==
    {<<>>,
     <<[name |-> LayerName(1), weights |-> <<"w1", "w2">>]>>}

(***************************************************************************)
(* The state machine of one process running convert_model_final.py, and a  *)
(* second run on the same input and output directory.                      *)
(***************************************************************************)
Locals ==
    /\ pc = "check"
    /\ model_loaded = FALSE
    /\ model_topology = NoValue
    /\ all_weights = <<>>
    /\ weight_paths = <<>>
    /\ weight_info = <<>>
    /\ model_json = NoValue
    /\ weight_index = 0
    /\ result = "none"
    /\ stdout = <<>>
    /\ exited = FALSE
    /\ exit_code = 0
    /\ written = {}

InitWith(nets, topologies) ==
    /\ file_exists \in BOOLEAN
    /\ load_fails \in (IF file_exists THEN BOOLEAN ELSE {FALSE})
    /\ net_layers \in nets
    /\ net_json \in topologies
    /\ \E d \in OutDirs : out_exists = d.exists /\ out_files = d.files
    /\ Locals
    /\ rerun = FALSE
    /\ first_files = EmptyDict
    /\ DatasetIdle

Init == InitWith(Networks(MaxLayers), SomeTopologies)

TopoInit == InitWith(SomeNetworks, Topologies(MaxTopoLayers))

inputs == <<file_exists, load_fails, net_layers, net_json>>

locals == <<model_loaded, model_topology, all_weights, weight_paths, weight_info,
            model_json, weight_index>>

outdir == <<out_exists, out_files, written>>

process == <<result, stdout, exited, exit_code>>

runs == <<rerun, first_files>>

\* lines 17-19
CheckExists ==
    /\ pc = "check"
    /\ IF ~file_exists
       THEN /\ stdout' = Append(stdout, "Error: Model file not found!")
            /\ result' = "false"
            /\ pc' = "main"
       ELSE /\ pc' = "load"
            /\ UNCHANGED <<stdout, result>>
    /\ UNCHANGED <<dataset, inputs, locals, outdir, exited, exit_code, runs>>

\* the load failure is reported and the conversion goes on
LoadModel_IgnoreFailure ==
    /\ pc = "load"
    /\ IF load_fails
       THEN /\ stdout' = Append(stdout, "Error loading model")
            /\ pc' = "topology"
            /\ UNCHANGED <<model_loaded, result>>
       ELSE /\ model_loaded' = TRUE
            /\ pc' = "topology"
            /\ UNCHANGED <<stdout, result>>
    /\ UNCHANGED <<dataset, inputs, model_topology, all_weights, weight_paths, weight_info,
                   model_json, weight_index, outdir, exited, exit_code, runs>>

\* lines 21-27
LoadModel ==
    /\ pc = "load"
    /\ IF load_fails
       THEN /\ stdout' = Append(stdout, "Error loading model")
            /\ result' = "false"
            /\ pc' = "main"
            /\ UNCHANGED model_loaded
       ELSE /\ model_loaded' = TRUE
            /\ pc' = "topology"
            /\ UNCHANGED <<stdout, result>>
    /\ UNCHANGED <<dataset, inputs, model_topology, all_weights, weight_paths, weight_info,
                   model_json, weight_index, outdir, exited, exit_code, runs>>

\* lines 29-59
BuildTopology ==
    /\ pc = "topology"
    /\ model_topology' = TransformTopology(net_json)
    /\ pc' = "weights"
    /\ UNCHANGED <<dataset, inputs, model_loaded, all_weights, weight_paths, weight_info,
                   model_json, weight_index, outdir, process, runs>>

\* lines 61-63
GetAllWeights ==
    /\ pc = "weights"
    /\ all_weights' = ModelGetWeights(net_layers)
    /\ pc' = "rmtree"
    /\ UNCHANGED <<dataset, inputs, model_loaded, model_topology, weight_paths, weight_info,
                   model_json, weight_index, outdir, process, runs>>

\* the old directory is kept
RemoveTree_Skip ==
    /\ pc = "rmtree"
    /\ pc' = "makedirs"
    /\ UNCHANGED <<dataset, inputs, locals, outdir, process, runs>>

\* lines 66-68: shutil.rmtree(output_dir) when it exists
RemoveTree ==
    /\ pc = "rmtree"
    /\ IF out_exists
       THEN out_exists' = FALSE /\ out_files' = EmptyDict
       ELSE UNCHANGED <<out_exists, out_files>>
    /\ pc' = "makedirs"
    /\ UNCHANGED <<dataset, inputs, locals, written, process, runs>>

\* line 69
MakeDirs ==
    /\ pc = "makedirs"
    /\ out_exists' = TRUE
    /\ pc' = "manifest"
    /\ UNCHANGED <<dataset, inputs, locals, out_files, written, process, runs>>

\* lines 71-114
BuildManifest ==
    /\ pc = "manifest"
    /\ LET pass == MetadataPass(net_layers)
       IN  /\ weight_paths' = pass.paths
           /\ weight_info' = pass.info
           /\ weight_index' = pass.index
           /\ model_json' = ModelJson(model_topology, WeightsManifest(pass.paths, pass.info))
    /\ pc' = "save_json"
    /\ UNCHANGED <<dataset, inputs, model_loaded, model_topology, all_weights, outdir, process, runs>>

\* lines 116-124
SaveModelJson ==
    /\ pc = "save_json"
    /\ out_files' = Put(out_files, "model.json", JsonFile(model_json))
    /\ written' = written \cup {"model.json"}
    /\ weight_index' = 0
    /\ pc' = "save_weights"
    /\ UNCHANGED <<dataset, inputs, model_loaded, model_topology, all_weights, weight_paths,
                   weight_info, model_json, out_exists, process, runs>>

\* lines 125-134: one turn of the loop over all_weights
SaveWeight ==
    /\ pc = "save_weights"
    /\ weight_index < Len(all_weights)
    /\ LET weight == all_weights[weight_index + 1]
           weight_name == GroupName(weight_index)
       IN  /\ out_files' = Put(out_files, weight_name, WeightFile(weight))
           /\ written' = written \cup {weight_name}
    /\ weight_index' = weight_index + 1
    /\ UNCHANGED <<dataset, inputs, pc, model_loaded, model_topology, all_weights, weight_paths,
                   weight_info, model_json, out_exists, process, runs>>

\* lines 136-139
ReturnTrue ==
    /\ pc = "save_weights"
    /\ weight_index >= Len(all_weights)
    /\ result' = "true"
    /\ pc' = "main"
    /\ UNCHANGED <<dataset, inputs, locals, outdir, stdout, exited, exit_code, runs>>

\* lines 141-147: the script prints the outcome and ends; Python's exit status
\* is 0 when the script runs to its end
Main ==
    /\ pc = "main"
    /\ stdout' = IF result = "true" THEN stdout
                 ELSE Append(stdout, "Model conversion failed!")
    /\ exited' = TRUE
    /\ exit_code' = 0
    /\ pc' = "exited"
    /\ UNCHANGED <<dataset, inputs, locals, outdir, result, runs>>

\* the script is run once more on the same model file and output directory
RunAgain ==
    /\ pc = "exited"
    /\ ~rerun
    /\ rerun' = TRUE
    /\ first_files' = out_files
    /\ pc' = "check"
    /\ model_loaded' = FALSE
    /\ model_topology' = NoValue
    /\ all_weights' = <<>>
    /\ weight_paths' = <<>>
    /\ weight_info' = <<>>
    /\ model_json' = NoValue
    /\ weight_index' = 0
    /\ result' = "none"
    /\ stdout' = <<>>
    /\ exited' = FALSE
    /\ exit_code' = 0
    /\ written' = {}
    /\ UNCHANGED <<dataset, inputs, out_exists, out_files>>

Next ==
    \/ CheckExists
    \/ LoadModel
    \/ BuildTopology
    \/ GetAllWeights
    \/ RemoveTree
    \/ MakeDirs
    \/ BuildManifest
    \/ SaveModelJson
    \/ SaveWeight
    \/ ReturnTrue
    \/ Main
    \/ RunAgain

Spec == Init /\ [][Next]_vars

TopoSpec == TopoInit /\ [][Next]_vars

(***************************************************************************)
(* process_dataset.py: process_haGRID_dataset, lines 82-165.               *)
(***************************************************************************)
\* directory names found under the dataset root; train_val is no HaGRID gesture
DirNames == {"point_up", "one", "fist", "train_val"}

\* the images of a directory, each by what the detector makes of it
ImageLists ==
    {<<>>, <<"hand">>, <<"unreadable", "hand">>, <<"hand", "no_hand", "hand", "hand">>}

\* the values of --max-samples tried
MaxSamplesChoices == {-1, 0, 1, 2}

\* the directory listings of at most n directories, names apart
Datasets(n) ==
    UNION {{ds \in [1..k -> [name : DirNames, images : ImageLists]] :
              \A i, j \in 1..k : ds[i].name = ds[j].name => i = j} : k \in 0..n}

\* line 122: GESTURE_MAPPING.get(gesture_name, "idle")
GestureClass(name) ==
    IF name \in DOMAIN GESTURE_MAPPING THEN GESTURE_MAPPING[name] ELSE "idle"

\* lines 48-80: the landmarks of the first hand, or None
ExtractLandmarks(image) ==
    IF image = "hand"
    THEN [found |-> TRUE, landmarks |-> "21 points", features |-> "63 numbers"]
    ELSE [found |-> FALSE]

\* lines 143-150
Sample(class, landmark_data, name, index) ==
    [label |-> class,
     landmarks |-> landmark_data.landmarks,
     features |-> landmark_data.features,
     source |-> "haGRID",
     original_gesture |-> name,
     image_path |-> <<name, index>>]

\* convert_model_final.py is not run
ConversionIdle ==
    /\ file_exists = FALSE
    /\ load_fails = FALSE
    /\ net_layers = <<>>
    /\ net_json = EmptyDict
    /\ out_exists = FALSE
    /\ out_files = EmptyDict
    /\ Locals
    /\ rerun = FALSE
    /\ first_files = EmptyDict

DatasetInit ==
    /\ ConversionIdle
    /\ dataset_exists \in BOOLEAN
    /\ dataset_dirs \in (IF dataset_exists THEN Datasets(MaxDirs) ELSE {<<>>})
    /\ max_samples \in MaxSamplesChoices
    /\ DatasetLocals

dataset_inputs == <<dataset_exists, dataset_dirs, max_samples>>

\* lines 91-116
CheckDataset ==
    /\ hg_pc = "check"
    /\ hg_pc' = IF ~dataset_exists THEN "done" ELSE "dirs"
    /\ collected_data' = <<>>
    /\ class_counts' = [c \in Classes |-> 0]
    /\ UNCHANGED <<conversion, dataset_inputs, dir_index, gesture_name, our_class,
                   image_files, img_index, output_file>>

\* lines 118-133: one directory is taken up, or skipped when its class is full
NextDir ==
    /\ hg_pc = "dirs"
    /\ dir_index < Len(dataset_dirs)
    /\ LET gesture_dir == dataset_dirs[dir_index + 1]
           class == GestureClass(gesture_dir.name)
       IN  /\ gesture_name' = gesture_dir.name
           /\ our_class' = class
           /\ IF class_counts[class] >= max_samples
              THEN /\ dir_index' = dir_index + 1
                   /\ UNCHANGED <<hg_pc, image_files, img_index>>
              ELSE /\ image_files' = gesture_dir.images
                   /\ img_index' = 0
                   /\ hg_pc' = "images"
                   /\ UNCHANGED dir_index
    /\ UNCHANGED <<conversion, dataset_inputs, collected_data, class_counts, output_file>>

\* the loop goes on after the class is full
ProcessImage_NoBreak ==
    /\ hg_pc = "images"
    /\ img_index < Len(image_files)
    /\ LET landmark_data == ExtractLandmarks(image_files[img_index + 1])
       IN  IF landmark_data.found
           THEN /\ collected_data' = Append(collected_data,
                       Sample(our_class, landmark_data, gesture_name, img_index))
                /\ class_counts' = [class_counts EXCEPT ![our_class] = @ + 1]
           ELSE UNCHANGED <<collected_data, class_counts>>
    /\ img_index' = img_index + 1
    /\ UNCHANGED <<conversion, dataset_inputs, hg_pc, dir_index, gesture_name, our_class,
                   image_files, output_file>>

\* lines 136-151: one turn of the loop over image_files
ProcessImage ==
    /\ hg_pc = "images"
    /\ img_index < Len(image_files)
    /\ IF class_counts[our_class] >= max_samples
       THEN /\ hg_pc' = "dirs"
            /\ dir_index' = dir_index + 1
            /\ UNCHANGED <<collected_data, class_counts, img_index>>
       ELSE /\ LET landmark_data == ExtractLandmarks(image_files[img_index + 1])
               IN  IF landmark_data.found
                   THEN /\ collected_data' = Append(collected_data,
                               Sample(our_class, landmark_data, gesture_name, img_index))
                        /\ class_counts' = [class_counts EXCEPT ![our_class] = @ + 1]
                   ELSE UNCHANGED <<collected_data, class_counts>>
            /\ img_index' = img_index + 1
            /\ UNCHANGED <<hg_pc, dir_index>>
    /\ UNCHANGED <<conversion, dataset_inputs, gesture_name, our_class, image_files,
                   output_file>>

\* line 136: the images of the directory are used up
EndImages ==
    /\ hg_pc = "images"
    /\ img_index >= Len(image_files)
    /\ hg_pc' = "dirs"
    /\ dir_index' = dir_index + 1
    /\ UNCHANGED <<conversion, dataset_inputs, collected_data, class_counts, gesture_name,
                   our_class, image_files, img_index, output_file>>

\* lines 153-165
SaveDataset ==
    /\ hg_pc = "dirs"
    /\ dir_index >= Len(dataset_dirs)
    /\ output_file' = JsonFile(collected_data)
    /\ hg_pc' = "done"
    /\ UNCHANGED <<conversion, dataset_inputs, collected_data, class_counts, dir_index,
                   gesture_name, our_class, image_files, img_index>>

DatasetNext ==
    \/ CheckDataset
    \/ NextDir
    \/ ProcessImage
    \/ EndImages
    \/ SaveDataset

DatasetSpec == DatasetInit /\ [][DatasetNext]_vars

(***************************************************************************)
(* Properties of convert_model.                                            *)
(***************************************************************************)
\* the file names of the output format, written out
ShardNames ==
    <<"group0-shard1of1.bin", "group1-shard1of1.bin", "group2-shard1of1.bin",
      "group3-shard1of1.bin", "group4-shard1of1.bin", "group5-shard1of1.bin",
      "group6-shard1of1.bin", "group7-shard1of1.bin", "group8-shard1of1.bin",
      "group9-shard1of1.bin", "group10-shard1of1.bin", "group11-shard1of1.bin">>

\* the tensors in layer order and, within a layer, in the layer's order
TensorsInLayerOrder ==
    Concat([k \in 1..Len(net_layers) |-> LayerGetWeights(net_layers[k])])

\* the flattened data of a tensor as little-endian 32-bit floats
LittleEndianData(weight) ==
    Concat([i \in 1..Len(Flatten(weight)) |-> NativeBytes(Float32Bits(Flatten(weight)[i]))])

\* convert_model has returned True in this run
Converted == result = "true"

\* the manifest group of the model.json this run has built
Group == model_json.weightsManifest[1]

\* C1: once a conversion has succeeded, as many .bin files were written as
\* the manifest has paths, and for every index i the file group<i>-shard1of1.bin
\* holds the flattened float32 data of the tensor whose name and shape
\* weights[i] records, that is of the i-th tensor in layer order.
C1_PassesAgree ==
    Converted =>
        /\ Cardinality(written \ {"model.json"}) = Len(Group.paths)
        /\ \A i \in 1..Len(Group.paths) :
              /\ ShardNames[i] \in DOMAIN out_files
              /\ out_files[ShardNames[i]].kind = "bin"
              /\ out_files[ShardNames[i]].bytes = LittleEndianData(TensorsInLayerOrder[i])
              /\ Group.weights[i].shape = TensorsInLayerOrder[i].shape

\* every layer of the network contributes exactly two tensors
TwoPerLayer == \A k \in 1..Len(net_layers) : Len(net_layers[k].weights) = 2

\* C2: for a network of L layers with exactly two tensors each, the manifest
\* has 2L weight entries, its paths are group0 .. group(2L-1) in increasing
\* order, and entry i declares the shape of the i-th tensor in layer order,
\* first tensor before second.
C2_TwoPerLayerManifest ==
    (model_json # NoValue /\ TwoPerLayer) =>
        LET L == Len(net_layers)
        IN  /\ Len(Group.weights) = 2 * L
            /\ Len(Group.paths) = 2 * L
            /\ \A i \in 1..(2 * L) :
                  /\ Group.paths[i] = ShardNames[i]
                  /\ Group.weights[i].shape =
                        TensorOf(net_layers[((i - 1) \div 2) + 1].weights[((i - 1) % 2) + 1]).shape

C2_Witness ==
    /\ Converted
    /\ TwoPerLayer
    /\ Len(net_layers) = 2
    /\ net_layers[1].weights = <<"w1", "w2">>
    /\ net_layers[2].weights = <<"w2", "w3">>

\* the raw topology has a config with a layer list
RawHasLayers == Has(net_json, "config") /\ Has(net_json["config"], "layers")

RawLayers == net_json["config"]["layers"]

\* entry i of the raw layer list is an InputLayer whose config carries batch_shape
IsBatchInput(i) ==
    /\ Has(RawLayers[i], "class_name")
    /\ RawLayers[i]["class_name"] = "InputLayer"
    /\ Has(RawLayers[i], "config")
    /\ Has(RawLayers[i]["config"], "batch_shape")

LongBatchShape(i) ==
    LET bs == RawLayers[i]["config"]["batch_shape"]
    IN  bs.kind = "list" /\ Len(bs.items) > 1

\* C3: for every InputLayer entry that carries batch_shape, the transformed
\* config has no batch_shape; with a batch_shape longer than 1 its inputShape
\* is batch_shape without the first element, otherwise the transform sets no
\* inputShape (the key is as it was).  Afterwards no InputLayer entry holds
\* batch_shape.
C3_InputLayerShape ==
    (model_topology # NoValue /\ RawHasLayers) =>
        LET out == model_topology["config"]["layers"]
        IN  /\ Len(out) = Len(RawLayers)
            /\ \A i \in 1..Len(RawLayers) :
                  /\ IsBatchInput(i) =>
                        LET before == RawLayers[i]["config"]
                            after == out[i]["config"]
                        IN  /\ ~Has(after, "batch_shape")
                            /\ IF LongBatchShape(i)
                               THEN /\ Has(after, "inputShape")
                                    /\ after["inputShape"] =
                                          JList(Tail(before["batch_shape"].items))
                               ELSE /\ Has(after, "inputShape") <=> Has(before, "inputShape")
                                    /\ Has(after, "inputShape") =>
                                          after["inputShape"] = before["inputShape"]
                  /\ (/\ Has(out[i], "class_name")
                      /\ out[i]["class_name"] = "InputLayer"
                      /\ Has(out[i], "config")) => ~Has(out[i]["config"], "batch_shape")

C3_Witness ==
    /\ model_topology # NoValue
    /\ RawHasLayers
    /\ Len(RawLayers) = 2
    /\ IsBatchInput(1) /\ LongBatchShape(1)
    /\ IsBatchInput(2) /\ ~LongBatchShape(2)

\* this run cannot load the model
CannotLoad == ~file_exists \/ load_fails

\* C4: the output directory is cleared, created or written only by a step of
\* a run whose model file exists and has been loaded; a run that cannot load
\* the model ends with the error reported, False returned and nothing written.
C4_NoOutputWithoutLoad ==
    [][/\ (out_exists' # out_exists \/ out_files' # out_files) =>
              (file_exists /\ ~load_fails /\ model_loaded)
       /\ (CannotLoad /\ pc' = "main") =>
              (result' = "false" /\ Len(stdout') > 0 /\ written' = {})]_vars

C4_Witness ==
    /\ exited
    /\ load_fails
    /\ result = "false"
    /\ out_exists
    /\ DOMAIN out_files = {"model.json", "group0-shard1of1.bin", "group7-shard1of1.bin", "notes.txt"}
    /\ out_files["model.json"] = Stale

\* C5: a run that failed ends the process with a non-zero exit status.
C5_FailureExitsNonZero == (exited /\ result = "false") => exit_code # 0

\* the network has no weight tensor
ZeroWeights == \A k \in 1..Len(net_layers) : net_layers[k].weights = <<>>

\* C6: a loaded network without weight tensors is converted: the run returns
\* True, model.json holds one manifest group with empty paths and weights, and
\* no .bin file is written.
C6_ZeroWeightNetwork ==
    (pc \in {"main", "exited"} /\ ~CannotLoad /\ ZeroWeights) =>
        /\ Converted
        /\ DOMAIN out_files = {"model.json"}
        /\ out_files["model.json"].kind = "json"
        /\ out_files["model.json"].value.weightsManifest = <<[paths |-> <<>>, weights |-> <<>>]>>
        /\ written = {"model.json"}

C6_Witness ==
    /\ exited
    /\ Converted
    /\ ZeroWeights
    /\ Len(net_layers) = 2

\* C7: after a second successful run on the same input and output directory
\* the directory is as the first run left it, and holds no file the second
\* run did not write.
C7_SecondRunSameOutput ==
    (rerun /\ exited) =>
        /\ out_files = first_files
        /\ Converted => (out_exists /\ DOMAIN out_files = written)

C7_Witness ==
    /\ rerun
    /\ exited
    /\ Converted
    /\ Len(all_weights) >= 2
    /\ "model.json" \in DOMAIN first_files

\* C8: the manifest has exactly one group, whose paths and weights have the
\* same length, entry i standing for the i-th tensor in layer order under a
\* file name no other entry has.
C8_OneGroupParallel ==
    model_json # NoValue =>
        /\ Len(model_json.weightsManifest) = 1
        /\ Len(Group.paths) = Len(Group.weights)
        /\ Len(Group.paths) = Len(TensorsInLayerOrder)
        /\ \A i \in 1..Len(Group.weights) : Group.weights[i].shape = TensorsInLayerOrder[i].shape
        /\ \A i, j \in 1..Len(Group.paths) : Group.paths[i] = Group.paths[j] => i = j

C8_Witness ==
    /\ Converted
    /\ Len(net_layers) = 2
    /\ Len(net_layers[1].weights) >= 1
    /\ Len(net_layers[2].weights) >= 2
    /\ out_files["model.json"] = JsonFile(model_json)

\* C9: whatever top-level keys the native topology has, the emitted
\* modelTopology has exactly class_name, config, keras_version and backend,
\* so neither build_config nor compile_config.
C9_TopologyKeys ==
    /\ model_topology # NoValue =>
          DOMAIN model_topology = {"class_name", "config", "keras_version", "backend"}
    /\ model_json # NoValue =>
          /\ DOMAIN model_json.modelTopology = {"class_name", "config", "keras_version", "backend"}
          /\ model_json.modelTopology["backend"] = "tensorflow"

C9_Witness ==
    /\ Converted
    /\ {"build_config", "compile_config", "module"} \subseteq DOMAIN net_json
    /\ out_files["model.json"].value.modelTopology = model_topology

\* the names of the manifest entries: kernel for a layer's first tensor, bias
\* for every later one
NamesInLayerOrder ==
    Concat([k \in 1..Len(net_layers) |->
              [j \in 1..Len(net_layers[k].weights) |->
                  IF j = 1 THEN net_layers[k].name \o "/kernel"
                  ELSE net_layers[k].name \o "/bias"]])

\* C10: the first tensor of a layer is entered as <layer>/kernel and every
\* later tensor of the layer as <layer>/bias, all with dtype float32; a layer
\* without tensors has no entry and takes no index.
C10_KernelBiasNames ==
    model_json # NoValue =>
        /\ Len(Group.weights) = Len(NamesInLayerOrder)
        /\ Len(Group.paths) = Len(NamesInLayerOrder)
        /\ \A i \in 1..Len(NamesInLayerOrder) :
              /\ Group.weights[i].name = NamesInLayerOrder[i]
              /\ Group.weights[i].dtype = "float32"
              /\ Group.paths[i] = ShardNames[i]

C10_Witness ==
    /\ Converted
    /\ Len(net_layers) = 2
    /\ net_layers[1].weights = <<>>
    /\ Len(net_layers[2].weights) = 3
    /\ Group.weights[1].name = "dense_2/kernel"
    /\ Group.weights[3].name = "dense_2/bias"

(***************************************************************************)
(* Properties of process_haGRID_dataset.                                   *)
(***************************************************************************)
\* the number of collected samples with label c
Collected(c) == Cardinality({i \in 1..Len(collected_data) : collected_data[i].label = c})

\* max(0, max_samples_per_class)
Cap == IF max_samples > 0 THEN max_samples ELSE 0

\* the names GESTURE_MAPPING knows, written out for the directories tried
KnownGesture(name) == name \in {"point_up", "one", "fist"}

====
